---------------------------- MODULE Spec2Model ----------------------------
(***************************************************************************)
(* The Chicago urban planner front end (src/unnamed/part_003): the         *)
(* transformation of the backend's z-scores into 0-100 display scores, the *)
(* data-load effect, and the drop / undo handlers that perturb a region's  *)
(* health score.                                                           *)
(*                                                                         *)
(* JavaScript numbers are modelled as exact rationals (a reduced fraction  *)
(* n/d) together with the values NaN, undefined and null; IEEE rounding of *)
(* doubles is not modelled.                                                *)
(***************************************************************************)
EXTENDS Integers, Sequences, FiniteSets, TLC

(***************************************************************************)
(* Bounds of the model.                                                    *)
(***************************************************************************)
\* z-scores of the scoring payloads are the multiples k/ZSteps, |k| <= ZMax
ZSteps == 4
ZMax == 10
\* number of handleDrop invocations in one behaviour
MaxDrops == 2

(***************************************************************************)
(* JavaScript values: numbers (rationals), NaN, undefined, null.           *)
(***************************************************************************)
RECURSIVE GCD(_, _)
GCD(a, b) ==
    IF b = 0 THEN a ELSE GCD(b, a % b)

Abs(x) ==
    IF x < 0 THEN -x ELSE x

Num(n, d) ==
    LET g == GCD(Abs(n), Abs(d))
        s == IF d < 0 THEN -1 ELSE 1
    IN  [t |-> "num", n |-> s * (n \div g), d |-> s * (d \div g)]

Whole(n) ==
    [t |-> "num", n |-> n, d |-> 1]

NaN ==
    [t |-> "nan", n |-> 0, d |-> 1]

Undefined ==
    [t |-> "undef", n |-> 0, d |-> 1]

Null ==
    [t |-> "null", n |-> 0, d |-> 1]

\* a string of the payload that is no numeral, such as "n/a"
Text ==
    [t |-> "str", n |-> 0, d |-> 1]

IsNum(v) ==
    v.t = "num"

\* ToNumber: undefined -> NaN, null -> +0, a string that is no numeral -> NaN
ToNumber(v) ==
    CASE v.t = "num" -> v
      [] v.t = "null" -> Whole(0)
      [] OTHER -> NaN

\* ToBoolean: 0, NaN, undefined and null are falsy, a non-empty string is truthy
Truthy(v) ==
    \/ v.t = "num" /\ v.n # 0
    \/ v.t = "str"

\* a || b
JsOr(a, b) ==
    IF Truthy(a) THEN a ELSE b

\* a + b on rationals, over the least common denominator
RatAdd(a, b) ==
    LET g == GCD(a.d, b.d)
    IN  Num(a.n * (b.d \div g) + b.n * (a.d \div g), (a.d \div g) * b.d)

RatNeg(a) ==
    [t |-> "num", n |-> -a.n, d |-> a.d]

\* a * b on rationals, cross-reduced before multiplying
RatMul(a, b) ==
    LET g1 == GCD(Abs(a.n), b.d)
        g2 == GCD(Abs(b.n), a.d)
        h1 == IF g1 = 0 THEN 1 ELSE g1
        h2 == IF g2 = 0 THEN 1 ELSE g2
    IN  Num((a.n \div h1) * (b.n \div h2), (a.d \div h2) * (b.d \div h1))

\* a <= b on rationals
RatLeq(a, b) ==
    RatAdd(a, RatNeg(b)).n <= 0

RatLess(a, b) ==
    RatAdd(a, RatNeg(b)).n < 0

\* the arithmetic operators: ToNumber on both operands, NaN is contagious
\* (the code adds no string: every operand of + is a number or a product)
JsAdd(a, b) ==
    LET x == ToNumber(a)
        y == ToNumber(b)
    IN  IF IsNum(x) /\ IsNum(y) THEN RatAdd(x, y) ELSE NaN

JsSub(a, b) ==
    LET x == ToNumber(a)
        y == ToNumber(b)
    IN  IF IsNum(x) /\ IsNum(y) THEN RatAdd(x, RatNeg(y)) ELSE NaN

JsMul(a, b) ==
    LET x == ToNumber(a)
        y == ToNumber(b)
    IN  IF IsNum(x) /\ IsNum(y) THEN RatMul(x, y) ELSE NaN

\* a / k for a positive integer literal k
JsDivInt(a, k) ==
    LET x == ToNumber(a)
    IN  IF IsNum(x) THEN RatMul(x, Num(1, k)) ELSE NaN

\* Math.min(a, b), Math.max(a, b): NaN if either argument converts to NaN
MathMin(a, b) ==
    LET x == ToNumber(a)
        y == ToNumber(b)
    IN  IF IsNum(x) /\ IsNum(y) THEN (IF RatLeq(x, y) THEN x ELSE y) ELSE NaN

MathMax(a, b) ==
    LET x == ToNumber(a)
        y == ToNumber(b)
    IN  IF IsNum(x) /\ IsNum(y) THEN (IF RatLeq(x, y) THEN y ELSE x) ELSE NaN

\* Math.round(x): the integer nearest to x, a tie going towards +infinity
MathRound(a) ==
    LET x == ToNumber(a)
    IN  IF IsNum(x) THEN Whole((2 * x.n + x.d) \div (2 * x.d)) ELSE NaN

\* x.toFixed(1) of a number, as the number of tenths it prints
\* (a tie goes away from zero); NaN prints "NaN"
ToFixed1(a) ==
    IF IsNum(a)
        THEN LET q == Abs(a.n) \div a.d
                 r == Abs(a.n) % a.d
                 m == 10 * q + ((20 * r + a.d) \div (2 * a.d))
             IN  Num(IF a.n < 0 THEN -m ELSE m, 10)
        ELSE NaN

(***************************************************************************)
(* The backend payload and its transformation (transformBackendData).      *)
(***************************************************************************)
Regions ==
    {"r1", "r2"}

\* a key that an object of the payload does not have
Absent ==
    [t |-> "absent", n |-> 0, d |-> 1]

\* obj[key]: undefined when the object has no such key
Lookup(map, r) ==
    IF map.m[r].t = "absent" THEN Undefined ELSE map.m[r]

\* Object.keys(obj)
Keys(map) ==
    {r \in Regions : map.m[r].t # "absent"}

\* an object of the payload: present |-> FALSE is a field the payload lacks
ObjectOf(f) ==
    [present |-> TRUE, m |-> f]

NoObject ==
    [present |-> FALSE, m |-> [r \in Regions |-> Absent]]

NoEntry ==
    [present |-> FALSE]

NullScores ==
    [isNull |-> TRUE, m |-> [r \in Regions |-> NoEntry]]

\* 50 + z * 25 without the clamp to [0, 100]
displayScoreUnclamped(z) ==
    MathRound(JsAdd(Whole(50), JsMul(z, Whole(25))))

\* Math.round(Math.max(0, Math.min(100, 50 + (z * 25))))
displayScore(z) ==
    MathRound(MathMax(Whole(0), MathMin(Whole(100), JsAdd(Whole(50), JsMul(z, Whole(25))))))

\* color_codes[regionId] || 'yellow'
colorCode(backendData, r) ==
    LET c == backendData.color_codes.m[r]
    IN  IF c = "" THEN "yellow" ELSE c

\* the feature z-score read by the transformation: feature_scores.f[regionId] || 0
featureZ(map, r) ==
    JsOr(Lookup(map, r), Whole(0))

\* the body of the forEach over Object.keys(overall_scores)
transformRegion(backendData, r) ==
    LET zScore == Lookup(backendData.overall_scores, r)
        aqiZScore == featureZ(backendData.aqi, r)
        tempZScore == featureZ(backendData.temperature, r)
        humidityZScore == featureZ(backendData.water_vapour, r)
    IN  [present |-> TRUE,
         health_score |-> displayScore(zScore),
         name |-> r,
         aqi_score |-> displayScore(aqiZScore),
         temperature_score |-> displayScore(tempZScore),
         humidity_score |-> displayScore(humidityZScore),
         color_code |-> colorCode(backendData, r)]

\* a TypeError: Object.keys of a missing overall_scores, or an index into a
\* missing feature map or a missing color_codes while some region is transformed
transformThrows(backendData) ==
    \/ ~backendData.overall_scores.present
    \/ /\ Keys(backendData.overall_scores) # {}
       /\ \/ ~backendData.aqi.present
          \/ ~backendData.temperature.present
          \/ ~backendData.water_vapour.present
          \/ ~backendData.color_codes.present

transformBackendData(backendData) ==
    [isNull |-> FALSE,
     m |-> [r \in Regions |->
              IF r \in Keys(backendData.overall_scores)
                  THEN transformRegion(backendData, r)
                  ELSE NoEntry]]

(***************************************************************************)
(* Payloads, as parsed from JSON.  ZValues are the numeric z-scores of the  *)
(* grid; a field may also hold null or a string, or be missing.            *)
(***************************************************************************)
ZValues ==
    {Num(k, ZSteps) : k \in (-ZMax)..ZMax}

FieldValues ==
    ZValues \cup {Null, Text, Absent}

Colors ==
    [present |-> TRUE, m |-> [r \in Regions |-> IF r = "r1" THEN "green" ELSE ""]]

NoColors ==
    [present |-> FALSE, m |-> [r \in Regions |-> ""]]

FeatureNames ==
    {"aqi", "temperature", "water_vapour"}

Lacking ==
    FeatureNames \cup {"none", "color_codes", "overall_scores"}

\* overall z-scores o, the feature `which` holding f for r1 (the other features
\* repeat the overall z-scores), and the field `lack` missing from the payload
Payload(o, f, which, lack) ==
    LET own == ObjectOf([r \in Regions |-> IF r = "r1" THEN f ELSE o["r1"]])
        feat(name) == IF lack = name THEN NoObject
                      ELSE IF which = name THEN own ELSE ObjectOf(o)
    IN  [overall_scores |-> IF lack = "overall_scores" THEN NoObject ELSE ObjectOf(o),
         aqi |-> feat("aqi"),
         temperature |-> feat("temperature"),
         water_vapour |-> feat("water_vapour"),
         color_codes |-> IF lack = "color_codes" THEN NoColors ELSE Colors]

\* what overall_scores holds for the second region in the scoring payloads
SecondRegionValues ==
    {Absent, Text, Num(1, ZSteps)}

ScoringPayloads ==
    {Payload([r \in Regions |-> IF r = "r1" THEN a ELSE b], f, which, lack) :
        a \in FieldValues, b \in SecondRegionValues, f \in FieldValues,
        which \in FeatureNames, lack \in Lacking}

\* the payloads the planner is run on: both regions scored (6 and 88); only r1
\* scored, its aqi z-score missing; the water_vapour map missing
PlannerPayloads ==
    {Payload([r \in Regions |-> IF r = "r1" THEN Num(-7, 4) ELSE Num(3, 2)],
             Num(1, 2), "aqi", "none"),
     Payload([r \in Regions |-> IF r = "r1" THEN Num(0, 1) ELSE Absent],
             Absent, "aqi", "none"),
     Payload([r \in Regions |-> IF r = "r1" THEN Num(-7, 4) ELSE Num(3, 2)],
             Num(1, 2), "aqi", "water_vapour")}

NoPayload ==
    Payload([r \in Regions |-> Absent], Absent, "aqi", "overall_scores")

(***************************************************************************)
(* Region geometry, palette and drop inputs.                               *)
(***************************************************************************)
\* regionGeoJson.features, in file order
Features ==
    <<"r1", "r2">>

\* sample globe points: p1 lies in r1 only, p12 in both regions (their polygons
\* overlap there), p2 in r2 only and p0 in no region
Points ==
    {"p1", "p12", "p2", "p0"}

\* turf.booleanPointInPolygon(point, feature.geometry)
booleanPointInPolygon(p, r) ==
    \/ r = "r1" /\ p \in {"p1", "p12"}
    \/ r = "r2" /\ p \in {"p12", "p2"}

NoRegion ==
    "none"

\* the first region containing the point, or the nearest one when none does
targetRegionOrNearest(p) ==
    IF \E i \in 1..Len(Features) : booleanPointInPolygon(p, Features[i])
        THEN Features[CHOOSE i \in 1..Len(Features) :
                /\ booleanPointInPolygon(p, Features[i])
                /\ \A j \in 1..(i - 1) : ~booleanPointInPolygon(p, Features[j])]
        ELSE Features[1]

\* the loop over regionGeoJson.features that breaks at the first hit
targetRegion(p) ==
    IF \E i \in 1..Len(Features) : booleanPointInPolygon(p, Features[i])
        THEN Features[CHOOSE i \in 1..Len(Features) :
                /\ booleanPointInPolygon(p, Features[i])
                /\ \A j \in 1..(i - 1) : ~booleanPointInPolygon(p, Features[j])]
        ELSE NoRegion

PALETTE_ITEMS ==
    {[id |-> "trees", type |-> "vegetation", placement |-> "ground",
      impactFactor |-> Num(2, 1)],
     [id |-> "cool_roof", type |-> "building", placement |-> "rooftop",
      impactFactor |-> Num(1, 1)],
     [id |-> "water_body", type |-> "water", placement |-> "ground",
      impactFactor |-> Num(22, 10)]}

\* an item dragged in from elsewhere: the earlier planner's solar panel, which
\* has neither a placement nor an impactFactor
ForeignItems ==
    {[id |-> "solar", type |-> "energy", placement |-> "",
      impactFactor |-> Undefined]}

\* what dataTransfer.getData('application/json') may hold; NoItem is the empty string
NoItem ==
    [id |-> "", type |-> "", placement |-> "", impactFactor |-> Undefined]

DropData ==
    PALETTE_ITEMS \cup ForeignItems \cup {NoItem}

\* getGlobeCoordinatesFromMovement: a point of the globe, or null
NoPoint ==
    "null"

\* the values Math.random() * 5 + 2 prints with toFixed(1), sampled at both ends
PropertyValues ==
    {Num(2, 1), Num(69, 10)}

(***************************************************************************)
(* The score perturbation of handleDrop.                                   *)
(***************************************************************************)
\* (currentScore - 100) / 100: the sign slipped
qualityMultiplierSlipped(currentScore) ==
    JsDivInt(JsSub(currentScore, Whole(100)), 100)

\* currentScore / 100: the headroom taken for the score itself
qualityMultiplierOfScore(currentScore) ==
    JsDivInt(currentScore, 100)

\* (100 - currentScore) / 100
qualityMultiplier(currentScore) ==
    JsDivInt(JsSub(Whole(100), currentScore), 100)

\* item.impactFactor * qualityMultiplier * 50: the scale ten times too large
scoreIncreaseTenfold(item, currentScore) ==
    JsMul(JsMul(item.impactFactor, qualityMultiplier(currentScore)), Whole(50))

\* item.impactFactor * qualityMultiplier * 5
scoreIncrease(item, currentScore) ==
    JsMul(JsMul(item.impactFactor, qualityMultiplier(currentScore)), Whole(5))

\* Math.min(100, currentScore + scoreIncrease)
newScore(item, currentScore) ==
    MathMin(Whole(100), JsAdd(currentScore, scoreIncrease(item, currentScore)))

(***************************************************************************)
(* The state of ChicagoUrbanPlanner.                                       *)
(***************************************************************************)
VARIABLES
    isLoading,          \* the loading overlay is shown
    regionGeoJson,      \* TRUE once the region geometry is set (null before)
    backendData,        \* the scoring payload the load effect fetched
    regionalScores,     \* null, or region id -> score entry
    cityState,          \* parcel id -> placed item
    history,            \* the undo stack
    hiddenAreas,        \* the areas whose buildings are hidden
    entities,           \* placement ids that own entities of customDataSource
    impactAnalysis,     \* the impact record shown after a drop, or null
    selectedRegionId,
    showAiScorePanel,
    clock,              \* the last value Date.now() returned
    drops,              \* one record per handleDrop invocation, in order
    scoringRun,         \* the last run of the backend's scoring pipeline
    aiScore,            \* null, or the score mockAIScoring resolved with
    view,               \* App: "landing" or "planner"
    guideStep,          \* App: null (NoStep), or the step the guide shows
    guideTimer,         \* App: the timer that opens the guide is pending
    showAIExplain,      \* the `visible` prop of SimpleAIExplain
    messages,           \* SimpleAIExplain: the chat, in order
    loading,            \* SimpleAIExplain
    error,              \* SimpleAIExplain: null (NoError) or the failure text
    requests            \* one record per getAIExplanation invocation, in order

vars ==
    <<isLoading, regionGeoJson, backendData, regionalScores, cityState, history,
      hiddenAreas, entities, impactAnalysis, selectedRegionId, showAiScorePanel,
      clock, drops, scoringRun, aiScore, view, guideStep, guideTimer,
      showAIExplain, messages, loading, error, requests>>

\* the state of App (the view and the guide) and of SimpleAIExplain, and the
\* score of mockAIScoring: the drop, undo and load handlers of the planner
\* leave it alone
guideVars ==
    <<view, guideStep, guideTimer>>

explainVars ==
    <<showAIExplain, messages, loading, error, requests>>

interfaceVars ==
    <<aiScore, guideVars, explainVars>>

EmptyObject ==
    [k \in {} |-> NoItem]

NoId ==
    -1

NoImpactAnalysis ==
    [title |-> "", airQuality |-> Undefined, propertyValue |-> Undefined,
     summary |-> Undefined]

\* "No Impact Calculated", "+0.0 pts", "+0.0%"
NoImpactCalculated ==
    [title |-> "No Impact Calculated", airQuality |-> Num(0, 10),
     propertyValue |-> Num(0, 10), summary |-> Undefined]

\* the backend's scoring pipeline has not run
NoRun ==
    [kind |-> "none"]

\* aiScore before mockAIScoring has resolved
NoAiScore ==
    [overall_score |-> Null]

\* guideStep null: the guide is not shown
NoStep ==
    -1

\* error null
NoError ==
    ""

\* useState initial values of the planner as App mounts it (startPlanner has
\* set the view); the effect that loads the data has not run
Init ==
    /\ isLoading = TRUE
    /\ regionGeoJson = FALSE
    /\ backendData = NoPayload
    /\ regionalScores = NullScores
    /\ cityState = EmptyObject
    /\ history = <<>>
    /\ hiddenAreas = <<>>
    /\ entities = {}
    /\ impactAnalysis = NoImpactAnalysis
    /\ selectedRegionId = NoRegion
    /\ showAiScorePanel = FALSE
    /\ clock = 0
    /\ drops = <<>>
    /\ scoringRun = NoRun
    /\ aiScore = NoAiScore
    /\ view = "planner"
    /\ guideStep = NoStep
    /\ guideTimer = FALSE
    /\ showAIExplain = FALSE
    /\ messages = <<>>
    /\ loading = FALSE
    /\ error = NoError
    /\ requests = <<>>

(***************************************************************************)
(* The data-load effect: Promise.all of the fetches, then the setters.     *)
(***************************************************************************)
LoadScores(payloads) ==
    /\ isLoading
    /\ isLoading' = FALSE
    /\ UNCHANGED <<cityState, history, hiddenAreas, entities, impactAnalysis,
                   selectedRegionId, showAiScorePanel, clock, drops, scoringRun,
                   interfaceVars>>
    /\ \/ \* a fetch rejects: the catch logs, nothing is set
          UNCHANGED <<regionGeoJson, backendData, regionalScores>>
       \/ \E payload \in payloads :
            /\ regionGeoJson' = TRUE
            /\ backendData' = payload
            /\ regionalScores' =
                 IF transformThrows(payload)
                     THEN regionalScores
                     ELSE transformBackendData(payload)

(***************************************************************************)
(* handleDrop.  A record of drops holds the locals of one invocation and   *)
(* the cityState, history and regionalScores its closure captured; once    *)
(* the invocation is over only how it ended is kept.  Date.now() returns   *)
(* the previous timestamp advanced by a tick drawn from `ticks`.           *)
(***************************************************************************)
NoDrop ==
    [pc |-> "returned", item |-> NoItem, placementId |-> NoId, perturbed |-> FALSE,
     cityState |-> EmptyObject, history |-> <<>>, regionalScores |-> NullScores]

\* the invocation is over (pc: returned, threw or recorded): its closure is dropped
ended(rec, pc) ==
    [NoDrop EXCEPT !.pc = pc, !.perturbed = rec.perturbed]

\* customDataSource.entities.add (a RuntimeError when the id is taken), then
\* parcelId, setHistory and setCityState from the closure
complete(i, ds, t1, ticks) ==
    LET rec == ds[i]
    IN  IF rec.placementId \in entities
            THEN /\ drops' = [ds EXCEPT ![i] = ended(rec, "threw")]
                 /\ clock' = t1
                 /\ UNCHANGED <<entities, cityState, history>>
            ELSE \E tick \in ticks :
                 LET parcelId == t1 + tick
                 IN  /\ clock' = parcelId
                     /\ entities' = entities \cup {rec.placementId}
                     /\ history' = Append(rec.history,
                            [cityState |-> rec.cityState,
                             entityIds |-> {rec.placementId},
                             hiddenArea |-> IF rec.item.id \in {"trees", "water_body"}
                                                THEN rec.placementId ELSE NoId,
                             regionalScores |-> rec.regionalScores])
                     /\ cityState' = [k \in DOMAIN rec.cityState \cup {parcelId} |->
                                        IF k = parcelId THEN rec.item ELSE rec.cityState[k]]
                     /\ drops' = [ds EXCEPT ![i] = ended(rec, "recorded")]

\* what follows once finalPosition is known: the hidden area of a ground item,
\* the second terrain sampling of a park, the entity and the history entry
afterPosition(i, ds, t1, ticks) ==
    LET rec == ds[i]
    IN  IF rec.item.id \in {"trees", "water_body"}
            THEN /\ hiddenAreas' = Append(hiddenAreas, [placementId |-> rec.placementId])
                 /\ IF rec.item.id = "trees"
                        THEN /\ drops' = [ds EXCEPT ![i].pc = "await2"]
                             /\ clock' = t1
                             /\ UNCHANGED <<entities, cityState, history>>
                        ELSE complete(i, ds, t1, ticks)
            ELSE /\ UNCHANGED hiddenAreas
                 /\ complete(i, ds, t1, ticks)

\* the impact record of a drop in a region: title, airQuality, propertyValue, summary
impactIn(name, increase, propertyValue, score) ==
    [title |-> name, airQuality |-> ToFixed1(increase),
     propertyValue |-> propertyValue, summary |-> ToFixed1(score)]

handleDrop(data, point, picked, ticks) ==
    /\ Len(drops) < MaxDrops
    /\ UNCHANGED <<isLoading, regionGeoJson, backendData, scoringRun, interfaceVars>>
    /\ LET i == Len(drops) + 1
           target == targetRegion(point)
       IN  IF data = NoItem \/ ~regionGeoJson \/ point = NoPoint
               THEN \* the early returns
                    /\ drops' = Append(drops, NoDrop)
                    /\ UNCHANGED <<regionalScores, cityState, history, hiddenAreas,
                                   entities, impactAnalysis, selectedRegionId,
                                   showAiScorePanel, clock>>
               ELSE IF /\ target # NoRegion
                       /\ \/ regionalScores.isNull
                          \/ ~regionalScores.m[target].present
               THEN \* TypeError reading health_score; placementId is discarded
                    /\ drops' = Append(drops, ended(NoDrop, "threw"))
                    /\ UNCHANGED <<regionalScores, cityState, history, hiddenAreas,
                                   entities, impactAnalysis, selectedRegionId,
                                   showAiScorePanel, clock>>
               ELSE \E tick \in ticks :
                    LET placementId == clock + tick
                        rec == [pc |-> "await1", item |-> data,
                                placementId |-> placementId,
                                perturbed |-> (target # NoRegion),
                                cityState |-> cityState, history |-> history,
                                regionalScores |-> regionalScores]
                    IN  /\ IF target # NoRegion
                               THEN LET currentScore == regionalScores.m[target].health_score
                                    IN  /\ regionalScores' =
                                             [regionalScores EXCEPT
                                                !.m[target].health_score =
                                                   newScore(data, currentScore)]
                                        /\ \E propertyValue \in PropertyValues :
                                             impactAnalysis' =
                                               impactIn(regionalScores.m[target].name,
                                                        scoreIncrease(data, currentScore),
                                                        propertyValue,
                                                        newScore(data, currentScore))
                                        /\ selectedRegionId' = target
                                        /\ showAiScorePanel' = TRUE
                               ELSE /\ impactAnalysis' = NoImpactCalculated
                                    /\ UNCHANGED <<regionalScores, selectedRegionId,
                                                   showAiScorePanel>>
                        /\ IF data.placement = "rooftop" /\ picked
                               THEN afterPosition(i, Append(drops, rec), placementId, ticks)
                               ELSE /\ drops' = Append(drops, rec)
                                    /\ clock' = placementId
                                    /\ UNCHANGED <<hiddenAreas, entities,
                                                   cityState, history>>

\* the await of sampleTerrainMostDetailed for the drop point settles
terrainSampled(i, ok, ticks) ==
    /\ drops[i].pc = "await1"
    /\ UNCHANGED <<isLoading, regionGeoJson, backendData, scoringRun, regionalScores,
                   impactAnalysis, selectedRegionId, showAiScorePanel, interfaceVars>>
    /\ IF ok
           THEN afterPosition(i, drops, clock, ticks)
           ELSE /\ drops' = [drops EXCEPT ![i] = ended(drops[i], "threw")]
                /\ UNCHANGED <<hiddenAreas, entities, cityState, history, clock>>

\* the await of sampleTerrainMostDetailed for the twenty trees settles
treesSampled(i, ok, ticks) ==
    /\ drops[i].pc = "await2"
    /\ UNCHANGED <<isLoading, regionGeoJson, backendData, scoringRun, regionalScores,
                   impactAnalysis, selectedRegionId, showAiScorePanel, hiddenAreas,
                   interfaceVars>>
    /\ IF ok
           THEN complete(i, drops, clock, ticks)
           ELSE /\ drops' = [drops EXCEPT ![i] = ended(drops[i], "threw")]
                /\ UNCHANGED <<entities, cityState, history, clock>>

(***************************************************************************)
(* handleUndo.                                                             *)
(***************************************************************************)
handleUndo ==
    /\ Len(history) > 0
    /\ LET lastAction == history[Len(history)]
       IN  /\ cityState' = lastAction.cityState
           /\ history' = SubSeq(history, 1, Len(history) - 1)
           /\ regionalScores' = lastAction.regionalScores
           /\ entities' = entities \ lastAction.entityIds
           /\ hiddenAreas' =
                IF lastAction.hiddenArea # NoId
                    THEN SelectSeq(hiddenAreas,
                            LAMBDA area : area.placementId # lastAction.hiddenArea)
                    ELSE hiddenAreas
           /\ impactAnalysis' = NoImpactAnalysis
    /\ UNCHANGED <<isLoading, regionGeoJson, backendData, scoringRun, selectedRegionId,
                   showAiScorePanel, clock, drops, interfaceVars>>

(***************************************************************************)
(* Specifications.                                                         *)
(***************************************************************************)
\* every Date.now() falls in a later millisecond than the one before
LaterTicks ==
    {1}

DropInputs ==
    {in \in [data : DropData, point : Points \cup {NoPoint}, picked : BOOLEAN] :
        in.picked => in.data.placement = "rooftop"}

Drop ==
    \E in \in DropInputs :
        handleDrop(in.data, in.point, in.picked, LaterTicks)

Sampled ==
    \E i \in 1..Len(drops), ok \in BOOLEAN :
        terrainSampled(i, ok, LaterTicks) \/ treesSampled(i, ok, LaterTicks)

Next ==
    \/ LoadScores(PlannerPayloads)
    \/ Drop
    \/ Sampled
    \/ handleUndo

Spec ==
    Init /\ [][Next]_vars

\* the load effect alone, over the scoring payloads
NextScoring ==
    LoadScores(ScoringPayloads)

SpecScoring ==
    Init /\ [][NextScoring]_vars

\* the planner when only items of the palette are dragged onto the map
PaletteInputs ==
    {in \in DropInputs : in.data \in PALETTE_ITEMS}

DropPalette ==
    \E in \in PaletteInputs :
        handleDrop(in.data, in.point, in.picked, LaterTicks)

NextPalette ==
    \/ LoadScores(PlannerPayloads)
    \/ DropPalette
    \/ Sampled
    \/ handleUndo

SpecPalette ==
    Init /\ [][NextPalette]_vars

(***************************************************************************)
(* Vocabulary of the properties.                                           *)
(***************************************************************************)
\* the step is the invocation of handleDrop on these inputs
IsDrop(in) ==
    handleDrop(in.data, in.point, in.picked, LaterTicks)

\* the step is a continuation of invocation i after one of its awaits
IsContinuation(i) ==
    /\ i \in 1..Len(drops)
    /\ drops[i].pc \in {"await1", "await2"}
    /\ drops'[i] # drops[i]

Scored(scores) ==
    {r \in Regions : ~scores.isNull /\ scores.m[r].present}

InDisplayRange(v) ==
    IsNum(v) /\ RatLeq(Whole(0), v) /\ RatLeq(v, Whole(100))

InNoRegion(point) ==
    point # NoPoint /\ \A r \in Regions : ~booleanPointInPolygon(point, r)

(***************************************************************************)
(* C1 - C4: the baseline scores and their transformation.                  *)
(***************************************************************************)
\* C1: a simulated intervention never mutates the baseline region state: the
\* per-region scores read after a handleDrop are identical to those read
\* before it.
C1_DropLeavesBaseline ==
    [][\A in \in DropInputs : IsDrop(in) => regionalScores' = regionalScores]_vars

\* the z-scores transformBackendData reads for a region, each with the score
\* of the entry that displays it
ScoredFields(r) ==
    {<<Lookup(backendData.overall_scores, r), regionalScores.m[r].health_score>>,
     <<Lookup(backendData.aqi, r), regionalScores.m[r].aqi_score>>,
     <<Lookup(backendData.temperature, r), regionalScores.m[r].temperature_score>>,
     <<Lookup(backendData.water_vapour, r), regionalScores.m[r].humidity_score>>}

FeatureFields(r) ==
    {<<Lookup(backendData.aqi, r), regionalScores.m[r].aqi_score>>,
     <<Lookup(backendData.temperature, r), regionalScores.m[r].temperature_score>>,
     <<Lookup(backendData.water_vapour, r), regionalScores.m[r].humidity_score>>}

IsUndefined(v) ==
    v.t = "undef"

\* C2: if a feature z-score of a region is undefined, the score component of
\* that feature and the region's final score are undefined; no neutral value
\* is substituted.
C2_UndefinedPropagates ==
    \A r \in Scored(regionalScores) :
        \A f \in FeatureFields(r) :
            IsUndefined(f[1]) =>
                /\ IsUndefined(f[2])
                /\ IsUndefined(regionalScores.m[r].health_score)

\* C3: every health_score held in regionalScores is a finite number or an
\* explicit undefined marker, never NaN.
C3_NoNaNScore ==
    \A r \in Scored(regionalScores) :
        regionalScores.m[r].health_score.t # "nan"

\* 50 + 25 z, held to [0, 100]
ClampedProjection(z) ==
    LET x == RatAdd(Whole(50), RatMul(Whole(25), z))
    IN  IF RatLess(x, Whole(0)) THEN Whole(0)
        ELSE IF RatLess(Whole(100), x) THEN Whole(100)
        ELSE x

AllScoredFields ==
    UNION {ScoredFields(r) : r \in Scored(regionalScores)}

\* C4: for every numeric z-score z the displayed score is
\* round(max(0, min(100, 50 + 25 z))): an integer of [0, 100] within a half of
\* the clamped projection (a tie rounding up), 50 at z = 0, 100 from z = 2 on,
\* 0 up to z = -2, and non-decreasing in z.
C4_ClampedDisplayScale ==
    /\ \A f \in AllScoredFields :
          IsNum(f[1]) =>
            /\ IsNum(f[2]) /\ f[2].d = 1 /\ f[2].n \in 0..100
            /\ RatLeq(RatAdd(f[2], Num(-1, 2)), ClampedProjection(f[1]))
            /\ RatLess(ClampedProjection(f[1]), RatAdd(f[2], Num(1, 2)))
            /\ (f[1].n = 0 => f[2].n = 50)
            /\ (RatLeq(Whole(2), f[1]) => f[2].n = 100)
            /\ (RatLeq(f[1], Whole(-2)) => f[2].n = 0)
    /\ \A f \in AllScoredFields, g \in AllScoredFields :
          (IsNum(f[1]) /\ IsNum(g[1]) /\ RatLeq(f[1], g[1])) => RatLeq(f[2], g[2])

\* a payload is transformed whose overall z-score lies above 2 and is shown as
\* 100 while a feature z-score of the same region lies below -2 and is shown as 0
C4_Witness ==
    \E r \in Scored(regionalScores) :
        /\ IsNum(Lookup(backendData.overall_scores, r))
        /\ RatLess(Whole(2), Lookup(backendData.overall_scores, r))
        /\ regionalScores.m[r].health_score = Whole(100)
        /\ \E f \in FeatureFields(r) :
              IsNum(f[1]) /\ RatLess(f[1], Whole(-2)) /\ f[2] = Whole(0)

(***************************************************************************)
(* C5 - C7: the life of a simulation request.                              *)
(***************************************************************************)
IsPrefix(a, b) ==
    Len(a) <= Len(b) /\ SubSeq(b, 1, Len(a)) = a

\* C5: overlapping drops share no working state: when a drop is recorded while
\* the history still holds all that was recorded since the drop began, nothing
\* is lost: the history gains exactly one entry and every placed item stays.
C5_NoLostUpdate ==
    [][\A i \in 1..Len(drops) :
          (/\ IsContinuation(i)
           /\ drops'[i].pc = "recorded"
           /\ IsPrefix(drops[i].history, history))
          => /\ Len(history') = Len(history) + 1
             /\ SubSeq(history', 1, Len(history)) = history
             /\ \A k \in DOMAIN cityState :
                   k \in DOMAIN cityState' /\ cityState'[k] = cityState[k]]_vars

\* C6: a request ends Reported or Rejected: one that ended without being
\* recorded (an early return, a throw or a failed await) has perturbed no
\* score, so one that perturbed a score was recorded.
C6_UnrecordedPerturbsNothing ==
    \A i \in 1..Len(drops) :
        drops[i].pc \in {"returned", "threw"} => ~drops[i].perturbed

KnownKinds ==
    {"trees", "cool_roof", "water_body"}

\* C7: a drop of an unknown kind, or without item data, region geometry or
\* globe coordinate, is rejected: neither its invocation nor any continuation
\* of it changes regionalScores, cityState, history or hiddenAreas.
C7_InvalidActionComputesNothing ==
    [][/\ \A in \in DropInputs :
             (/\ IsDrop(in)
              /\ \/ in.data.id \notin KnownKinds
                 \/ ~regionGeoJson
                 \/ in.point = NoPoint)
             => UNCHANGED <<regionalScores, cityState, history, hiddenAreas>>
       /\ \A i \in 1..Len(drops) :
             (IsContinuation(i) /\ drops[i].item.id \notin KnownKinds)
             => UNCHANGED <<regionalScores, cityState, history, hiddenAreas>>]_vars

(***************************************************************************)
(* C8 - C10: the effect of a drop on the scores.                           *)
(***************************************************************************)
\* C8: a drop at a point of no region is no error and has no effect on the
\* scores: the invocation goes on to place the item, neither it nor its
\* continuations change regionalScores, and it reports "+0.0 pts".
C8_NoRegionZeroEffect ==
    [][/\ \A in \in DropInputs :
             (IsDrop(in) /\ in.data # NoItem /\ regionGeoJson /\ InNoRegion(in.point))
             => /\ regionalScores' = regionalScores
                /\ impactAnalysis'.title = "No Impact Calculated"
                /\ impactAnalysis'.airQuality = Whole(0)
                /\ drops'[Len(drops')].pc \in {"await1", "await2", "recorded"}
       /\ \A i \in 1..Len(drops) :
             (IsContinuation(i) /\ ~drops[i].perturbed)
             => regionalScores' = regionalScores]_vars

\* a drop outside every region has been placed and recorded over loaded
\* scores: it reported no impact and the scores are those of its history entry
C8_Witness ==
    /\ Len(history) > 0
    /\ Scored(regionalScores) # {}
    /\ impactAnalysis = NoImpactCalculated
    /\ history[Len(history)].regionalScores = regionalScores

\* C9: from transformed scores in [0, 100], every health_score stays in
\* [0, 100] after any sequence of drops of palette items and undos.
C9_ScoresStayInRange ==
    \A r \in Scored(regionalScores) :
        InDisplayRange(regionalScores.m[r].health_score)

\* two recorded drops have raised the score of one region twice
C9_Witness ==
    /\ Len(history) >= 2
    /\ \E r \in Scored(regionalScores) :
          /\ r \in Scored(history[1].regionalScores)
          /\ r \in Scored(history[2].regionalScores)
          /\ RatLess(history[1].regionalScores.m[r].health_score,
                     history[2].regionalScores.m[r].health_score)
          /\ RatLess(history[2].regionalScores.m[r].health_score,
                     regionalScores.m[r].health_score)

\* C10: for a palette item dropped in a region whose score lies in [0, 100]
\* the reported delta is postScore - preScore: the stored change is
\* impactFactor * (100 - preScore) / 20, not cut by the clamp, and the
\* impact record prints it.
C10_ReportedDeltaIsStoredDelta ==
    [][\A in \in DropInputs, r \in Regions :
          (/\ IsDrop(in)
           /\ in.data \in PALETTE_ITEMS
           /\ regionGeoJson
           /\ in.point # NoPoint
           /\ booleanPointInPolygon(in.point, r)
           /\ impactAnalysis'.title = r
           /\ r \in Scored(regionalScores)
           /\ InDisplayRange(regionalScores.m[r].health_score))
          => LET preScore == regionalScores.m[r].health_score
                 postScore == regionalScores'.m[r].health_score
                 delta == RatAdd(postScore, RatNeg(preScore))
             IN  /\ IsNum(postScore)
                 /\ delta = RatMul(RatMul(in.data.impactFactor,
                                          RatAdd(Whole(100), RatNeg(preScore))),
                                   Num(1, 20))
                 /\ impactAnalysis'.airQuality = ToFixed1(delta)]_vars

\* a palette item has been dropped in r1 and recorded: a positive delta is
\* reported and the score of r1 lies above the one of the history entry
C10_Witness ==
    /\ Len(history) > 0
    /\ impactAnalysis.title = "r1"
    /\ IsNum(impactAnalysis.airQuality)
    /\ impactAnalysis.airQuality.n > 0
    /\ "r1" \in Scored(regionalScores)
    /\ "r1" \in Scored(history[Len(history)].regionalScores)
    /\ RatLess(history[Len(history)].regionalScores.m["r1"].health_score,
               regionalScores.m["r1"].health_score)

(***************************************************************************)
(* C11 - C14: what a drop does to the scores of the regions.               *)
(***************************************************************************)
\* the change of the score s that a drop of the item would store
storedIncrease(item, s) ==
    RatAdd(newScore(item, s), RatNeg(s))

\* C11: a palette item dropped in a region whose score s lies in [0, 100]
\* never lowers the score and raises it when s < 100; the increase is at most
\* 5 * impactFactor, and it is smaller than the one the same item would bring to
\* any region of a lower score.
C11_DeltaSignMatchesIntent ==
    [][\A in \in DropInputs, r \in Regions :
          (/\ IsDrop(in)
           /\ in.data \in PALETTE_ITEMS
           /\ regionGeoJson
           /\ in.point # NoPoint
           /\ booleanPointInPolygon(in.point, r)
           /\ impactAnalysis'.title = r
           /\ r \in Scored(regionalScores)
           /\ InDisplayRange(regionalScores.m[r].health_score))
          => LET s == regionalScores.m[r].health_score
                 postScore == regionalScores'.m[r].health_score
                 delta == RatAdd(postScore, RatNeg(s))
             IN  /\ IsNum(postScore)
                 /\ RatLeq(s, postScore)
                 /\ RatLess(s, Whole(100)) => RatLess(s, postScore)
                 /\ RatLeq(delta, RatMul(Whole(5), in.data.impactFactor))
                 /\ \A q \in Scored(regionalScores) :
                       LET lower == regionalScores.m[q].health_score
                       IN  (InDisplayRange(lower) /\ RatLess(lower, s))
                           => RatLess(delta, storedIncrease(in.data, lower))]_vars

\* a palette item has been dropped in r2, the region of the higher score, and
\* recorded: its score has risen and still lies below 100
C11_Witness ==
    /\ Len(history) > 0
    /\ impactAnalysis.title = "r2"
    /\ "r2" \in Scored(regionalScores)
    /\ "r1" \in Scored(regionalScores)
    /\ "r2" \in Scored(history[Len(history)].regionalScores)
    /\ RatLess(history[Len(history)].regionalScores.m["r2"].health_score,
               regionalScores.m["r2"].health_score)
    /\ RatLess(regionalScores.m["r1"].health_score,
               history[Len(history)].regionalScores.m["r2"].health_score)
    /\ RatLess(regionalScores.m["r2"].health_score, Whole(100))

\* the payload that puts the second region at the top of the display scale
\* (z = 2 shows as 100), where a drop leaves the scores as they are
SaturatedPayloads ==
    {Payload([r \in Regions |-> IF r = "r1" THEN Num(-7, 4) ELSE Num(2, 1)],
             Num(1, 2), "aqi", "none")}

NextSaturated ==
    \/ LoadScores(SaturatedPayloads)
    \/ Drop
    \/ Sampled
    \/ handleUndo

SpecSaturated ==
    Init /\ [][NextSaturated]_vars

\* the point is the one sample point whose drops land in the selected region
OnlyPointOfSelected(point) ==
    /\ booleanPointInPolygon(point, selectedRegionId)
    /\ \A q \in Points :
          (/\ booleanPointInPolygon(q, selectedRegionId)
           /\ \A r \in Regions \ {selectedRegionId} : ~booleanPointInPolygon(q, r))
          <=> q = point

\* C12: a drop is deterministic: when the latest invocation, still in flight,
\* dropped the same item at the same point against the scores that are
\* current again, a second drop of that item at that point stores the same
\* scores and reports the very same impact record.
C12_SameInputsSameResult ==
    [][\A in \in DropInputs :
          (/\ IsDrop(in)
           /\ Len(drops) > 0
           /\ drops[Len(drops)].pc \in {"await1", "await2"}
           /\ drops[Len(drops)].perturbed
           /\ drops[Len(drops)].item = in.data
           /\ drops[Len(drops)].regionalScores = regionalScores
           /\ impactAnalysis # NoImpactAnalysis
           /\ in.point # NoPoint
           /\ OnlyPointOfSelected(in.point))
          => /\ regionalScores' = regionalScores
             /\ impactAnalysis' = impactAnalysis]_vars

\* C13: the regions a drop affects are exactly those whose footprint contains
\* the drop point, also where footprints overlap: when a palette item is
\* dropped and the invocation goes on, a region whose score lies below 100 has
\* its score changed if and only if it contains the point.
C13_AffectedAreContaining ==
    [][\A in \in DropInputs, r \in Regions :
          (/\ IsDrop(in)
           /\ in.data \in PALETTE_ITEMS
           /\ regionGeoJson
           /\ in.point # NoPoint
           /\ drops'[Len(drops')].pc \in {"await1", "await2", "recorded"}
           /\ r \in Scored(regionalScores)
           /\ InDisplayRange(regionalScores.m[r].health_score)
           /\ RatLess(regionalScores.m[r].health_score, Whole(100)))
          => (regionalScores'.m[r].health_score # regionalScores.m[r].health_score
                <=> booleanPointInPolygon(in.point, r))]_vars

\* C14: no score is stale: in every state the entry of each scored region is
\* the one derived from the current values of the population, the z-scores of
\* the payload.
C14_ScoresDerivedFromPopulation ==
    \A r \in Scored(regionalScores) :
        regionalScores.m[r] = transformRegion(backendData, r)

(***************************************************************************)
(* C15 - C16: the transformation of the payload.                           *)
(***************************************************************************)
\* C15: a data gap does not fail the batch: once a payload with overall_scores
\* has been loaded, whatever feature score, feature map or color_codes it
\* lacks, every region id of overall_scores has an entry, and the region
\* geometry and the regional scores are both set.
C15_DataGapKeepsBatch ==
    (~isLoading /\ backendData.overall_scores.present)
    => /\ regionGeoJson <=> ~regionalScores.isNull
       /\ Keys(backendData.overall_scores) \subseteq Scored(regionalScores)

\* the z-scores the payload holds for the region
PayloadZScores(r) ==
    {Lookup(backendData.overall_scores, r), Lookup(backendData.aqi, r),
     Lookup(backendData.temperature, r), Lookup(backendData.water_vapour, r)}

\* C16: the health score is HCS = 100 - (0.35 HeatIndex + 0.25 AirRisk)
\* + (0.25 GreenAccess + 0.15 HealthcareAccess); in particular a region whose
\* z-scores are all 0 scores exactly 100.
C16_AllZeroScoresHundred ==
    \A r \in Scored(regionalScores) :
        PayloadZScores(r) = {Whole(0)} => regionalScores.m[r].health_score = Whole(100)

(***************************************************************************)
(* The backend's scoring pipeline (app/services: gravity.py, the z-score   *)
(* normalisation).  Its code is not among the sources; it is modelled from *)
(* its contract: the Gravity Accessibility Model and the Normalizer.  A     *)
(* behaviour holds one run of the pipeline.                                *)
(***************************************************************************)
\* the planner's state, which a run of the pipeline leaves alone
plannerVars ==
    <<isLoading, regionGeoJson, backendData, regionalScores, cityState, history,
      hiddenAreas, entities, impactAnalysis, selectedRegionId, showAiScorePanel,
      clock, drops>>

\* facilities per run, and the grid 0..MaxCoord x 0..MaxCoord they lie on
MaxFacilities == 2
MaxCoord == 2

Capacities ==
    {1, 3}

CutoffRadii ==
    {1, 2}

Decays ==
    {Num(1, 2), Whole(1)}

FacilityValues ==
    [capacity : Capacities, x : 0..MaxCoord, y : 0..MaxCoord]

FacilityLists ==
    UNION {[1..n -> FacilityValues] : n \in 0..MaxFacilities}

\* the region's representative point
region_centroid ==
    [x |-> 0, y |-> 0]

\* distance^2 in the planar (Euclidean) metric
distanceSquared(p, q) ==
    (p.x - q.x) * (p.x - q.x) + (p.y - q.y) * (p.y - q.y)

\* every facility counts, whatever its distance
withinAnyRadius(facility, cutoff_radius) ==
    TRUE

\* the facility lies within cutoff_radius of the representative point
withinCutoff(facility, cutoff_radius) ==
    distanceSquared(facility, region_centroid) <= cutoff_radius * cutoff_radius

\* capacity / (1 + decay * distance^2)
contribution(facility, decay) ==
    LET den == RatAdd(Whole(1),
                      RatMul(decay, Whole(distanceSquared(facility, region_centroid))))
    IN  RatMul(Whole(facility.capacity), Num(den.d, den.n))

\* what each facility adds to the sum: nothing beyond the cutoff
contributions(facilities, cutoff_radius, decay) ==
    [i \in DOMAIN facilities |->
        IF withinCutoff(facilities[i], cutoff_radius)
            THEN contribution(facilities[i], decay)
            ELSE Whole(0)]

RECURSIVE RatSum(_, _)
RatSum(seq, n) ==
    IF n = 0 THEN Whole(0) ELSE RatAdd(RatSum(seq, n - 1), seq[n])

accessibility(facilities, cutoff_radius, decay) ==
    LET parts == contributions(facilities, cutoff_radius, decay)
    IN  RatSum(parts, Len(parts))

accessibilityRun ==
    /\ scoringRun = NoRun
    /\ \E facilities \in FacilityLists, cutoff_radius \in CutoffRadii, decay \in Decays :
          scoringRun' = [kind |-> "gravity",
                         facilities |-> facilities,
                         cutoff_radius |-> cutoff_radius,
                         decay |-> decay,
                         contributions |-> contributions(facilities, cutoff_radius, decay),
                         accessibility |-> accessibility(facilities, cutoff_radius, decay)]
    /\ UNCHANGED <<plannerVars, interfaceVars>>

\* regions of the population one z-score run normalises
MaxTracts == 3

\* raw values of one feature: temperatures, or undefined where the raster has
\* no valid data under the polygon
RawValues ==
    {Whole(30), Whole(32), Whole(34), Undefined}

Populations ==
    [1..MaxTracts -> RawValues]

\* the regions with a defined raw value
Defined(values) ==
    {i \in DOMAIN values : IsNum(values[i])}

RECURSIVE RatSumOver(_, _)
RatSumOver(f, set) ==
    IF set = {} THEN Whole(0)
    ELSE LET i == CHOOSE j \in set : TRUE
         IN  RatAdd(f[i], RatSumOver(f, set \ {i}))

\* the population mean, over the defined values
mean(values) ==
    RatMul(RatSumOver(values, Defined(values)), Num(1, Cardinality(Defined(values))))

\* the population variance sigma^2, over the defined values
variance(values) ==
    LET mu == mean(values)
        sq == [i \in Defined(values) |->
                 RatMul(RatAdd(values[i], RatNeg(mu)), RatAdd(values[i], RatNeg(mu)))]
    IN  RatMul(RatSumOver(sq, Defined(values)), Num(1, Cardinality(Defined(values))))

Infinity ==
    [t |-> "inf", n |-> 0, d |-> 1]

\* deviation / sigma as floating point computes it, sigma being the square
\* root of var: 0 / 0 is NaN, x / 0 is infinite, else the quotient, kept as
\* the deviation and the radicand
overSigma(deviation, var) ==
    IF var.n = 0
        THEN (IF deviation.n = 0 THEN NaN ELSE Infinity)
        ELSE [t |-> "surd", n |-> deviation.n, d |-> deviation.d, radicand |-> var]

\* the z-scores without the rule for sigma = 0
zscoreUnguarded(values) ==
    [i \in DOMAIN values |->
        IF ~IsNum(values[i]) THEN Undefined
        ELSE overSigma(RatAdd(values[i], RatNeg(mean(values))), variance(values))]

\* zscore(values): undefined stays undefined; 0 for every defined value when
\* sigma = 0; else (x - mu) / sigma
zscore(values) ==
    [i \in DOMAIN values |->
        IF ~IsNum(values[i]) THEN Undefined
        ELSE IF variance(values).n = 0 THEN Whole(0)
        ELSE overSigma(RatAdd(values[i], RatNeg(mean(values))), variance(values))]

zscoreRun ==
    /\ scoringRun = NoRun
    /\ \E values \in Populations :
          scoringRun' = [kind |-> "zscore", values |-> values, z |-> zscore(values)]
    /\ UNCHANGED <<plannerVars, interfaceVars>>

NextPipeline ==
    \/ accessibilityRun
    \/ zscoreRun

SpecPipeline ==
    Init /\ [][NextPipeline]_vars

(***************************************************************************)
(* C17 - C18: the gravity model and the normaliser.                        *)
(***************************************************************************)
\* the facilities of the run that lie within the cutoff radius of the
\* representative point (the origin of the grid)
Near ==
    {i \in DOMAIN scoringRun.facilities :
        LET f == scoringRun.facilities[i]
        IN  f.x * f.x + f.y * f.y <= scoringRun.cutoff_radius * scoringRun.cutoff_radius}

\* C17: the accessibility is the sum over the facilities within cutoff_radius
\* of capacity / (1 + decay * distance^2): exactly 0 when no facility lies
\* within the radius, and of two facilities of one capacity the farther one
\* contributes strictly less.
C17_GravityAccessibility ==
    scoringRun.kind = "gravity" =>
        LET fs == scoringRun.facilities
            part == scoringRun.contributions
            d2(i) == fs[i].x * fs[i].x + fs[i].y * fs[i].y
        IN  /\ Near = {} => scoringRun.accessibility = Whole(0)
            /\ scoringRun.accessibility = RatSumOver(part, Near)
            /\ \A i \in Near :
                  RatMul(part[i], RatAdd(Whole(1), RatMul(scoringRun.decay, Whole(d2(i)))))
                      = Whole(fs[i].capacity)
            /\ \A i \in Near, j \in Near :
                  (fs[i].capacity = fs[j].capacity /\ d2(i) < d2(j))
                  => RatLess(part[j], part[i])

\* a run over two facilities of one capacity at different distances, both
\* within the cutoff radius
C17_Witness ==
    /\ scoringRun.kind = "gravity"
    /\ \E i \in Near, j \in Near :
          /\ scoringRun.facilities[i].capacity = scoringRun.facilities[j].capacity
          /\ scoringRun.facilities[i].x = 0 /\ scoringRun.facilities[i].y = 0
          /\ scoringRun.facilities[j].x > 0
          /\ RatLess(Whole(0), scoringRun.accessibility)

\* C18: when the defined values of a population are all identical, the z-score
\* of every region with a defined value is exactly 0; no z-score is ever NaN
\* or infinite.
C18_ZeroVarianceZeroScore ==
    scoringRun.kind = "zscore" =>
        LET values == scoringRun.values
            def == {i \in DOMAIN values : values[i].t = "num"}
        IN  /\ (\A i \in def, j \in def : values[i] = values[j])
               => \A i \in def : scoringRun.z[i] = Whole(0)
            /\ \A i \in DOMAIN values : scoringRun.z[i].t \notin {"nan", "inf"}

\* a run over a population with an undefined value whose defined values, more
\* than one, are identical
C18_Witness ==
    /\ scoringRun.kind = "zscore"
    /\ \E i \in DOMAIN scoringRun.values : scoringRun.values[i].t = "undef"
    /\ \E i \in DOMAIN scoringRun.values, j \in DOMAIN scoringRun.values :
          i # j /\ scoringRun.values[i] = Whole(32) /\ scoringRun.values[j] = Whole(32)
    /\ \A i \in DOMAIN scoringRun.values : scoringRun.values[i] \in {Whole(32), Undefined}

SameMsTicks ==
    {0, 1}

DropSameMs ==
    \E in \in DropInputs :
        handleDrop(in.data, in.point, in.picked, SameMsTicks)

SampledSameMs ==
    \E i \in 1..Len(drops), ok \in BOOLEAN :
        terrainSampled(i, ok, SameMsTicks) \/ treesSampled(i, ok, SameMsTicks)

NextSameMs ==
    \/ LoadScores(PlannerPayloads)
    \/ DropSameMs
    \/ SampledSameMs
    \/ handleUndo

\* the planner when two readings of the clock may fall in one millisecond
SpecSameMs ==
    Init /\ [][NextSameMs]_vars

\* C20: after any sequence of completed drops and undos, also of drops that
\* complete within the same millisecond, cityState holds as many placed items
\* as history holds entries.
C20_ItemsMatchHistory ==
    (\A i \in 1..Len(drops) : drops[i].pc \in {"returned", "recorded"})
    => Cardinality(DOMAIN cityState) = Len(history)

(***************************************************************************)
(* mockAIScoring, shared by both planners: the score of a design, resolved *)
(* by a timer half a second after the call.                                *)
(***************************************************************************)
\* Math.floor(Math.random() * 20) + 75, sampled at both ends
AestheticsValues ==
    {75, 94}

\* items.filter(i => types.has(i.type)).length over Object.values(state)
countOfTypes(state, types) ==
    Cardinality({k \in DOMAIN state : state[k].type \in types})

greenCount(state) ==
    countOfTypes(state, {"vegetation", "water"})

energyCount(state) ==
    countOfTypes(state, {"energy"})

\* Math.min(100, n) of integers
capHundred(n) ==
    IF n > 100 THEN 100 ELSE n

\* Math.min(100, 70 + greenCount * 3 + energyCount * 5)
overallScore(state) ==
    capHundred(70 + greenCount(state) * 3 + energyCount(state) * 5)

\* the object the promise resolves with
mockAIScoring(state, aesthetics) ==
    [overall_score |-> Whole(overallScore(state)),
     sustainability |-> capHundred(70 + greenCount(state) * 4 + energyCount(state) * 2),
     livability |-> capHundred(75 + greenCount(state) * 2),
     efficiency |-> capHundred(70 + energyCount(state) * 8),
     aesthetics |-> aesthetics,
     summary |-> IF overallScore(state) > 85 THEN "Excellent" ELSE "Consider"]

\* mockAIScoring({}).then(setAiScore) of the mount effect: its timer fires
aiScored ==
    /\ aiScore = NoAiScore
    /\ \E aesthetics \in AestheticsValues :
          aiScore' = mockAIScoring(EmptyObject, aesthetics)
    /\ UNCHANGED <<plannerVars, scoringRun, guideVars, explainVars>>

(***************************************************************************)
(* The planner of my-app/src/App.jsx.  It declares the same state as the   *)
(* planner above, so its handlers are written over the same variables; its *)
(* history holds the earlier cityState objects, its hidden areas are the   *)
(* boxes around the drop points and its entities are anonymous (they are   *)
(* told apart by the invocation that added them).                          *)
(***************************************************************************)
\* what /health-scores.json holds: a score entry per region
HealthData ==
    {transformBackendData(payload) :
        payload \in {q \in PlannerPayloads : ~transformThrows(q)}}

\* the load of the mount effect: Promise.all of the fetches, then the setters
loadDataApp ==
    /\ isLoading
    /\ isLoading' = FALSE
    /\ UNCHANGED <<backendData, cityState, history, hiddenAreas, entities,
                   impactAnalysis, selectedRegionId, showAiScorePanel, clock, drops,
                   scoringRun, interfaceVars>>
    /\ \/ UNCHANGED <<regionGeoJson, regionalScores>>
       \/ \E healthData \in HealthData :
            /\ regionGeoJson' = TRUE
            /\ regionalScores' = healthData

NoDropApp ==
    [pc |-> "returned", item |-> NoItem, point |-> NoPoint, parcelId |-> NoId,
     cityState |-> EmptyObject, history |-> <<>>, newState |-> EmptyObject]

\* the invocation is over: its closure is dropped
endedApp(pc) ==
    [NoDropApp EXCEPT !.pc = pc]

\* entities.add, parcelId, newState, setHistory and setCityState from the
\* closure, then the call of mockAIScoring(newState)
completeApp(i, ds, ticks) ==
    LET rec == ds[i]
    IN  \E tick \in ticks :
        LET parcelId == clock + tick
            newState == [k \in DOMAIN rec.cityState \cup {parcelId} |->
                           IF k = parcelId THEN rec.item ELSE rec.cityState[k]]
        IN  /\ clock' = parcelId
            /\ entities' = entities \cup {i}
            /\ history' = Append(rec.history, rec.cityState)
            /\ cityState' = newState
            /\ drops' = [ds EXCEPT ![i].pc = "scoring", ![i].parcelId = parcelId,
                                   ![i].newState = newState]

\* what follows once finalPosition is known
afterPositionApp(i, ds, ticks) ==
    LET rec == ds[i]
    IN  IF rec.item.id \in {"trees", "water_body"}
            THEN /\ hiddenAreas' = Append(hiddenAreas, [point |-> rec.point])
                 /\ IF rec.item.id = "trees"
                        THEN /\ drops' = [ds EXCEPT ![i].pc = "await2"]
                             /\ UNCHANGED <<entities, cityState, history, clock>>
                        ELSE completeApp(i, ds, ticks)
            ELSE /\ UNCHANGED hiddenAreas
                 /\ completeApp(i, ds, ticks)

handleDropApp(data, point, picked, ticks) ==
    /\ Len(drops) < MaxDrops
    /\ UNCHANGED <<isLoading, regionGeoJson, backendData, scoringRun, interfaceVars>>
    /\ LET i == Len(drops) + 1
           target == targetRegion(point)
       IN  IF data = NoItem \/ ~regionGeoJson \/ point = NoPoint
               THEN \* the early returns
                    /\ drops' = Append(drops, NoDropApp)
                    /\ UNCHANGED <<regionalScores, cityState, history, hiddenAreas,
                                   entities, impactAnalysis, selectedRegionId,
                                   showAiScorePanel, clock>>
               ELSE IF target # NoRegion /\ ~regionalScores.m[target].present
               THEN \* TypeError reading health_score
                    /\ drops' = Append(drops, endedApp("threw"))
                    /\ UNCHANGED <<regionalScores, cityState, history, hiddenAreas,
                                   entities, impactAnalysis, selectedRegionId,
                                   showAiScorePanel, clock>>
               ELSE LET rec == [pc |-> "await1", item |-> data, point |-> point,
                                parcelId |-> NoId, cityState |-> cityState,
                                history |-> history, newState |-> EmptyObject]
                    IN  /\ IF target # NoRegion
                               THEN LET currentScore == regionalScores.m[target].health_score
                                    IN  /\ regionalScores' =
                                             [regionalScores EXCEPT
                                                !.m[target].health_score =
                                                   newScore(data, currentScore)]
                                        /\ \E propertyValue \in PropertyValues :
                                             impactAnalysis' =
                                               impactIn(regionalScores.m[target].name,
                                                        scoreIncrease(data, currentScore),
                                                        propertyValue,
                                                        newScore(data, currentScore))
                                        /\ selectedRegionId' = target
                                        /\ showAiScorePanel' = TRUE
                               ELSE UNCHANGED <<regionalScores, impactAnalysis,
                                                selectedRegionId, showAiScorePanel>>
                        /\ IF data.placement = "rooftop" /\ picked
                               THEN afterPositionApp(i, Append(drops, rec), ticks)
                               ELSE /\ drops' = Append(drops, rec)
                                    /\ UNCHANGED <<hiddenAreas, entities, cityState,
                                                   history, clock>>

\* the await of sampleTerrainMostDetailed for the drop point settles
terrainSampledApp(i, ok, ticks) ==
    /\ drops[i].pc = "await1"
    /\ UNCHANGED <<isLoading, regionGeoJson, backendData, scoringRun, regionalScores,
                   impactAnalysis, selectedRegionId, showAiScorePanel, interfaceVars>>
    /\ IF ok
           THEN afterPositionApp(i, drops, ticks)
           ELSE /\ drops' = [drops EXCEPT ![i] = endedApp("threw")]
                /\ UNCHANGED <<hiddenAreas, entities, cityState, history, clock>>

\* the await of sampleTerrainMostDetailed for the twenty trees settles
treesSampledApp(i, ok, ticks) ==
    /\ drops[i].pc = "await2"
    /\ UNCHANGED <<isLoading, regionGeoJson, backendData, scoringRun, regionalScores,
                   impactAnalysis, selectedRegionId, showAiScorePanel, hiddenAreas,
                   interfaceVars>>
    /\ IF ok
           THEN completeApp(i, drops, ticks)
           ELSE /\ drops' = [drops EXCEPT ![i] = endedApp("threw")]
                /\ UNCHANGED <<entities, cityState, history, clock>>

\* the timer of `await mockAIScoring(newState)` fires, then setAiScore(score);
\* the timers all wait half a second, so they fire in the order they were set
scoredApp(i) ==
    /\ drops[i].pc = "scoring"
    /\ aiScore # NoAiScore
    /\ \A j \in 1..Len(drops) :
          drops[j].pc = "scoring" => drops[j].parcelId >= drops[i].parcelId
    /\ \E aesthetics \in AestheticsValues :
          aiScore' = mockAIScoring(drops[i].newState, aesthetics)
    /\ drops' = [drops EXCEPT ![i] = endedApp("scored")]
    /\ UNCHANGED <<isLoading, regionGeoJson, backendData, regionalScores, cityState,
                   history, hiddenAreas, entities, impactAnalysis, selectedRegionId,
                   showAiScorePanel, clock, scoringRun, guideVars, explainVars>>

handleUndoApp ==
    /\ Len(history) > 0
    /\ cityState' = history[Len(history)]
    /\ history' = SubSeq(history, 1, Len(history) - 1)
    /\ entities' = {}
    /\ hiddenAreas' = SubSeq(hiddenAreas, 1, Len(hiddenAreas) - 1)
    /\ UNCHANGED <<isLoading, regionGeoJson, backendData, regionalScores,
                   impactAnalysis, selectedRegionId, showAiScorePanel, clock, drops,
                   scoringRun, interfaceVars>>

DropApp ==
    \E in \in DropInputs :
        handleDropApp(in.data, in.point, in.picked, LaterTicks)

SampledApp ==
    \E i \in 1..Len(drops), ok \in BOOLEAN :
        terrainSampledApp(i, ok, LaterTicks) \/ treesSampledApp(i, ok, LaterTicks)

ScoredApp ==
    \E i \in 1..Len(drops) : scoredApp(i)

NextApp ==
    \/ loadDataApp
    \/ aiScored
    \/ DropApp
    \/ SampledApp
    \/ ScoredApp
    \/ handleUndoApp

SpecApp ==
    Init /\ [][NextApp]_vars

(***************************************************************************)
(* C21 - C22: the hidden areas and the AI score follow the design.         *)
(***************************************************************************)
\* the parcels of the design that hold a park or a water body
GroundItems(state) ==
    {k \in DOMAIN state : state[k].id \in {"trees", "water_body"}}

\* no invocation of App.jsx's handleDrop is between its first and last step
NoDropInProgressApp ==
    \A i \in 1..Len(drops) : drops[i].pc \in {"returned", "scored"}

\* C21: in App.jsx, after any sequence of completed drops and undos,
\* hiddenAreas holds exactly one hidden area for each park or water body still
\* in cityState.
C21_HiddenAreasMatchGroundItems ==
    NoDropInProgressApp
    => Len(hiddenAreas) = Cardinality(GroundItems(cityState))

\* no invocation of either planner's handleDrop is between its first and last step
NoDropInProgress ==
    \A i \in 1..Len(drops) : drops[i].pc \notin {"await1", "await2", "scoring"}

\* C22: whenever no drop is in progress, the AI score (once mockAIScoring has
\* resolved for the first time) is the score of the current design:
\* aiScore.overall_score = min(100, 70 + 3 * green + 5 * energy) over cityState.
C22_ScoreReflectsDesign ==
    (NoDropInProgress /\ aiScore # NoAiScore)
    => aiScore.overall_score =
         Whole(capHundred(70 + 3 * greenCount(cityState) + 5 * energyCount(cityState)))

(***************************************************************************)
(* The score panel of the planner: the region click handler, the close     *)
(* button of the panel and what the panel and the map show.                *)
(***************************************************************************)
\* the LEFT_CLICK input action, at a point of the globe or off the globe
leftClick(point) ==
    /\ regionGeoJson
    /\ LET foundRegionId == targetRegion(point)
       IN  IF point # NoPoint /\ foundRegionId # NoRegion
                 /\ foundRegionId # selectedRegionId
               THEN /\ selectedRegionId' = foundRegionId
                    /\ showAiScorePanel' = TRUE
               ELSE /\ showAiScorePanel' = FALSE
                    /\ selectedRegionId' = NoRegion
    /\ UNCHANGED <<isLoading, regionGeoJson, backendData, regionalScores, cityState,
                   history, hiddenAreas, entities, impactAnalysis, clock, drops,
                   scoringRun, interfaceVars>>

\* x.toFixed(0) read back as a number: the nearest integer, a tie going away
\* from zero; NaN prints "NaN"
toFixed0(a) ==
    IF IsNum(a)
        THEN LET m == (2 * Abs(a.n) + a.d) \div (2 * a.d)
             IN  Whole(IF a.n < 0 THEN -m ELSE m)
        ELSE NaN

\* regionalScores[selectedRegionId] is there to show
regionShown ==
    /\ selectedRegionId # NoRegion
    /\ ~regionalScores.isNull
    /\ regionalScores.m[selectedRegionId].present

\* the useMemo: the selected region's scores, else aiScore
currentAiScoreDisplay ==
    IF regionShown
        THEN [overall_score |-> toFixed0(regionalScores.m[selectedRegionId].health_score),
              regionName |-> regionalScores.m[selectedRegionId].name]
        ELSE aiScore

\* showAiScorePanel && currentAiScoreDisplay
panelRendered ==
    showAiScorePanel /\ currentAiScoreDisplay # NoAiScore

\* onClose of the score panel
onClose ==
    /\ panelRendered
    /\ showAiScorePanel' = FALSE
    /\ UNCHANGED <<isLoading, regionGeoJson, backendData, regionalScores, cityState,
                   history, hiddenAreas, entities, impactAnalysis, selectedRegionId,
                   clock, drops, scoringRun, interfaceVars>>

\* a comparison score >= k of getColorStringForScore: false for NaN
atLeast(score, k) ==
    IsNum(ToNumber(score)) /\ RatLeq(Whole(k), ToNumber(score))

getColorStringForScore(score) ==
    IF atLeast(score, 70) THEN "rgb(46, 204, 113)"
    ELSE IF atLeast(score, 40) THEN "rgb(241, 196, 15)"
    ELSE "rgb(231, 76, 60)"

\* the colour the styling effect gives the buildings of a scored region
buildingColor(r) ==
    getColorStringForScore(regionalScores.m[r].health_score)

\* the colour of the score value in the panel
panelColor ==
    getColorStringForScore(currentAiScoreDisplay.overall_score)

LeftClick ==
    \E point \in Points \cup {NoPoint} : leftClick(point)

NextPanel ==
    \/ LoadScores(PlannerPayloads)
    \/ aiScored
    \/ Drop
    \/ Sampled
    \/ handleUndo
    \/ LeftClick
    \/ onClose

\* the planner with its score panel
SpecPanel ==
    Init /\ [][NextPanel]_vars

(***************************************************************************)
(* C23 - C24: the score panel.                                             *)
(***************************************************************************)
\* C23: a click on a region whose panel is shown hides the panel and clears
\* the selection; a click on a region in any other state (another region or
\* none selected, or the panel closed by its button) selects the region and
\* shows its panel; a click outside every region hides and clears.
C23_ClickTogglesPanel ==
    [][\A point \in Points \cup {NoPoint} :
          leftClick(point)
          => LET r == IF point = NoPoint THEN NoRegion ELSE targetRegion(point)
             IN  IF r # NoRegion /\ ~(showAiScorePanel /\ selectedRegionId = r)
                     THEN selectedRegionId' = r /\ showAiScorePanel'
                     ELSE selectedRegionId' = NoRegion /\ ~showAiScorePanel']_vars

\* a payload that scores the first region 68, just under the green band
ThresholdPayloads ==
    {Payload([r \in Regions |-> IF r = "r1" THEN Num(18, 25) ELSE Num(3, 2)],
             Num(1, 2), "aqi", "none")}

NextThreshold ==
    \/ LoadScores(ThresholdPayloads)
    \/ Drop
    \/ Sampled
    \/ handleUndo

SpecThreshold ==
    Init /\ [][NextThreshold]_vars

\* C24: whenever the panel shows a region, the colour of the score it shows
\* is the colour of that region's buildings on the map.
C24_PanelColourIsMapColour ==
    (showAiScorePanel /\ regionShown)
    => panelColor = buildingColor(selectedRegionId)

(***************************************************************************)
(* SimpleAIExplain: the chat with the AI.  A record of requests holds one  *)
(* invocation of getAIExplanation, suspended at its fetch until the        *)
(* response arrives.                                                       *)
(***************************************************************************)
\* getAIExplanation invocations per behaviour
MaxRequests == 3

\* what the text box may hold when the form is submitted
ChatTexts ==
    {" ", "why"}

\* message.trim()
trim(message) ==
    IF message = " " THEN "" ELSE message

\* the part of getAIExplanation before `await fetch`
getAIExplanation(userMessage) ==
    /\ Len(requests) < MaxRequests
    /\ loading' = TRUE
    /\ error' = NoError
    /\ messages' = IF userMessage # ""
                       THEN Append(messages, [type |-> "user", content |-> userMessage])
                       ELSE messages
    /\ requests' = Append(requests, [pc |-> "fetch"])

\* the AI Explain button of the planner, then the effect on `visible`
showExplain ==
    /\ showAIExplain' = TRUE
    /\ IF ~showAIExplain /\ Len(messages) = 0
           THEN getAIExplanation("")
           ELSE UNCHANGED <<messages, loading, error, requests>>
    /\ UNCHANGED <<plannerVars, scoringRun, aiScore, guideVars>>

\* onClose of the chat: the component renders nothing but keeps its state
closeExplain ==
    /\ showAIExplain
    /\ showAIExplain' = FALSE
    /\ UNCHANGED <<messages, loading, error, requests>>
    /\ UNCHANGED <<plannerVars, scoringRun, aiScore, guideVars>>

\* ChatInput.handleSubmit, then handleSendMessage
handleSubmit(message) ==
    /\ showAIExplain
    /\ IF trim(message) # "" /\ ~loading
           THEN getAIExplanation(trim(message))
           ELSE UNCHANGED <<messages, loading, error, requests>>
    /\ UNCHANGED <<plannerVars, scoringRun, aiScore, guideVars, showAIExplain>>

\* the fetch of request i settles: a response with an answer (ok), or a network
\* error, a non-OK status or a body without choices
responded(i, ok) ==
    /\ requests[i].pc = "fetch"
    /\ IF ok
           THEN /\ messages' = Append(messages, [type |-> "ai", content |-> "answer"])
                /\ UNCHANGED error
           ELSE /\ error' = "Failed to get AI response. Please try again."
                /\ UNCHANGED messages
    /\ loading' = FALSE
    /\ requests' = [requests EXCEPT ![i] = [pc |-> "settled"]]
    /\ UNCHANGED <<plannerVars, scoringRun, aiScore, guideVars, showAIExplain>>

Submit ==
    \E message \in ChatTexts : handleSubmit(message)

Responded ==
    \E i \in 1..Len(requests), ok \in BOOLEAN : responded(i, ok)

NextExplain ==
    \/ showExplain
    \/ closeExplain
    \/ Submit
    \/ Responded

SpecExplain ==
    Init /\ [][NextExplain]_vars

(***************************************************************************)
(* C25 - C26: the AI requests.                                             *)
(***************************************************************************)
\* the requests whose fetch has not settled
InFlight ==
    {i \in 1..Len(requests) : requests[i].pc = "fetch"}

\* C25: at most one AI request is in flight at any time, and loading is true
\* exactly while a request is in flight.
C25_OneRequestInFlight ==
    /\ Cardinality(InFlight) <= 1
    /\ loading <=> InFlight # {}

\* C26: a request that settles leaves loading false; one that failed sets
\* error and appends no message; one that succeeded appends exactly one 'ai'
\* message and leaves error null; starting a request clears the error.
C26_RequestOutcome ==
    [][/\ \A i \in 1..Len(requests) :
            /\ responded(i, TRUE)
               => /\ ~loading'
                  /\ messages' = Append(messages, [type |-> "ai", content |-> "answer"])
                  /\ error' = NoError
            /\ responded(i, FALSE)
               => /\ ~loading'
                  /\ error' # NoError
                  /\ messages' = messages
       /\ Len(requests') > Len(requests) => error' = NoError]_vars

(***************************************************************************)
(* The earlier planner (the second half of SimpleAIExplain.jsx) and its    *)
(* App, the one variant whose guide is started: by the Guide button and by *)
(* the timer of startPlanner.  Its planner places trees only; its state is *)
(* written over the variables of the same names.                           *)
(***************************************************************************)
\* App as constructed: the landing page is shown
InitEarlier ==
    /\ view = "landing"
    /\ guideStep = NoStep
    /\ guideTimer = FALSE
    /\ isLoading = TRUE
    /\ regionGeoJson = FALSE
    /\ backendData = NoPayload
    /\ regionalScores = NullScores
    /\ cityState = EmptyObject
    /\ history = <<>>
    /\ hiddenAreas = <<>>
    /\ entities = {}
    /\ impactAnalysis = NoImpactAnalysis
    /\ selectedRegionId = NoRegion
    /\ showAiScorePanel = FALSE
    /\ clock = 0
    /\ drops = <<>>
    /\ scoringRun = NoRun
    /\ aiScore = NoAiScore
    /\ showAIExplain = FALSE
    /\ messages = <<>>
    /\ loading = FALSE
    /\ error = NoError
    /\ requests = <<>>

\* steps.length
StepCount ==
    5

\* currentStep < steps.length - 1 ? setStep(currentStep + 1) : setStep(null)
nextStep(currentStep) ==
    IF currentStep < StepCount - 1 THEN currentStep + 1 ELSE NoStep

\* startPlanner: setView('planner'); setTimeout(() => setGuideStep(0), 500)
startPlanner ==
    /\ view = "landing"
    /\ view' = "planner"
    /\ guideTimer' = TRUE
    /\ UNCHANGED <<plannerVars, scoringRun, aiScore, guideStep, explainVars>>

\* the timer of startPlanner fires
guideTimerFired ==
    /\ guideTimer
    /\ guideTimer' = FALSE
    /\ guideStep' = 0
    /\ UNCHANGED <<plannerVars, scoringRun, aiScore, view, explainVars>>

\* the Guide button of the planner, which the overlay of an open guide covers
onStartGuide ==
    /\ view = "planner"
    /\ guideStep = NoStep
    /\ guideStep' = 0
    /\ UNCHANGED <<plannerVars, scoringRun, aiScore, view, guideTimer, explainVars>>

\* the Next / Finish button of the guide
guideNext ==
    /\ guideStep # NoStep
    /\ guideStep' = nextStep(guideStep)
    /\ UNCHANGED <<plannerVars, scoringRun, aiScore, view, guideTimer, explainVars>>

\* the close button of the guide
guideClose ==
    /\ guideStep # NoStep
    /\ guideStep' = NoStep
    /\ UNCHANGED <<plannerVars, scoringRun, aiScore, view, guideTimer, explainVars>>

\* the earlier palette: only the tree is placed; a park and a solar panel
EARLIER_PALETTE ==
    {[id |-> "tree", type |-> "vegetation"],
     [id |-> "park", type |-> "vegetation"],
     [id |-> "solar", type |-> "energy"]}

\* the earlier mockAIScoring: water does not count as green
mockAIScoringEarlier(state, aesthetics) ==
    LET green == countOfTypes(state, {"vegetation"})
        energy == countOfTypes(state, {"energy"})
        score == capHundred(70 + green * 3 + energy * 5)
    IN  [overall_score |-> Whole(score),
         sustainability |-> capHundred(70 + green * 4),
         livability |-> capHundred(75 + green * 2),
         efficiency |-> capHundred(70 + energy * 8),
         aesthetics |-> aesthetics,
         summary |-> IF score > 85 THEN "Excellent" ELSE "Consider"]

\* the tileset of the mount effect has loaded, or failed to
tilesLoadedEarlier ==
    /\ view = "planner"
    /\ isLoading
    /\ isLoading' = FALSE
    /\ UNCHANGED <<regionGeoJson, backendData, regionalScores, cityState, history,
                   hiddenAreas, entities, impactAnalysis, selectedRegionId,
                   showAiScorePanel, clock, drops, scoringRun, interfaceVars>>

\* mockAIScoring({}).then(setAiScore) of the mount effect: its timer fires
aiScoredEarlier ==
    /\ view = "planner"
    /\ aiScore = NoAiScore
    /\ \E aesthetics \in AestheticsValues :
          aiScore' = mockAIScoringEarlier(EmptyObject, aesthetics)
    /\ UNCHANGED <<plannerVars, scoringRun, guideVars, explainVars>>

NoDropEarlier ==
    [pc |-> "returned", item |-> NoItem, dropId |-> NoId, parcelId |-> NoId,
     cityState |-> EmptyObject]

endedEarlier(pc) ==
    [NoDropEarlier EXCEPT !.pc = pc]

\* Math.random() * 15 + 5 printed with toFixed(1), sampled at both ends
AirQualityValues ==
    {Num(5, 1), Num(20, 1)}

\* handleDrop up to the await of sampleTerrainMostDetailed
handleDropEarlier(data, point, ticks) ==
    /\ view = "planner"
    /\ Len(drops) < MaxDrops
    /\ UNCHANGED <<isLoading, regionGeoJson, backendData, regionalScores, cityState,
                   history, hiddenAreas, impactAnalysis, selectedRegionId,
                   showAiScorePanel, scoringRun, interfaceVars>>
    /\ IF data = NoItem
           THEN \* JSON.parse('') throws
                /\ drops' = Append(drops, endedEarlier("threw"))
                /\ UNCHANGED <<entities, clock>>
           ELSE IF data.id # "tree" \/ point = NoPoint
           THEN /\ drops' = Append(drops, NoDropEarlier)
                /\ UNCHANGED <<entities, clock>>
           ELSE \E tick \in ticks :
                LET dropId == clock + tick
                IN  /\ clock' = dropId
                    /\ IF dropId \in entities
                           THEN \* viewer.entities.add: the id is taken
                                /\ drops' = Append(drops, endedEarlier("threw"))
                                /\ UNCHANGED entities
                           ELSE /\ entities' = entities \cup {dropId}
                                /\ drops' = Append(drops,
                                      [pc |-> "await2", item |-> data, dropId |-> dropId,
                                       parcelId |-> NoId, cityState |-> cityState])

\* the await settles: the trees, the impact record, the history entry and the
\* placed item, then the call of mockAIScoring(cityState) of the closure
treesSampledEarlier(i, ok, ticks) ==
    /\ drops[i].pc = "await2"
    /\ UNCHANGED <<isLoading, regionGeoJson, backendData, regionalScores, hiddenAreas,
                   entities, selectedRegionId, showAiScorePanel, scoringRun,
                   interfaceVars>>
    /\ IF ok
           THEN \E t1 \in ticks, t2 \in ticks :
                LET blockId == clock + t1
                    parcelId == blockId + t2
                IN  /\ clock' = parcelId
                    /\ \E airQuality \in AirQualityValues,
                          propertyValue \in PropertyValues :
                          impactAnalysis' =
                            [id |-> blockId, title |-> "Greenspace Impact Analysis",
                             airQuality |-> airQuality,
                             propertyValue |-> propertyValue, summary |-> Text]
                    /\ history' = Append(history, [cityState |-> drops[i].cityState,
                                                   dropId |-> drops[i].dropId])
                    /\ cityState' = [k \in DOMAIN cityState \cup {parcelId} |->
                                       IF k = parcelId THEN drops[i].item
                                                       ELSE cityState[k]]
                    /\ drops' = [drops EXCEPT ![i].pc = "scoring",
                                              ![i].parcelId = parcelId]
           ELSE /\ drops' = [drops EXCEPT ![i] = endedEarlier("threw")]
                /\ UNCHANGED <<impactAnalysis, history, cityState, clock>>

\* the timer of `await mockAIScoring(cityState)` fires, then setAiScore(score)
scoredEarlier(i) ==
    /\ drops[i].pc = "scoring"
    /\ aiScore # NoAiScore
    /\ \A j \in 1..Len(drops) :
          drops[j].pc = "scoring" => drops[j].parcelId >= drops[i].parcelId
    /\ \E aesthetics \in AestheticsValues :
          aiScore' = mockAIScoringEarlier(drops[i].cityState, aesthetics)
    /\ drops' = [drops EXCEPT ![i] = endedEarlier("scored")]
    /\ UNCHANGED <<isLoading, regionGeoJson, backendData, regionalScores, cityState,
                   history, hiddenAreas, entities, impactAnalysis, selectedRegionId,
                   showAiScorePanel, clock, scoringRun, guideVars, explainVars>>

handleUndoEarlier ==
    /\ view = "planner"
    /\ Len(history) > 0
    /\ LET lastAction == history[Len(history)]
       IN  /\ entities' = entities \ {lastAction.dropId}
           /\ cityState' = lastAction.cityState
           /\ history' = SubSeq(history, 1, Len(history) - 1)
    /\ UNCHANGED <<isLoading, regionGeoJson, backendData, regionalScores, hiddenAreas,
                   impactAnalysis, selectedRegionId, showAiScorePanel, clock, drops,
                   scoringRun, interfaceVars>>

DropEarlier ==
    \E data \in EARLIER_PALETTE \cup {NoItem}, point \in {"p0", NoPoint} :
        handleDropEarlier(data, point, LaterTicks)

SampledEarlier ==
    \E i \in 1..Len(drops), ok \in BOOLEAN :
        treesSampledEarlier(i, ok, LaterTicks)

ScoredEarlier ==
    \E i \in 1..Len(drops) : scoredEarlier(i)

NextEarlier ==
    \/ startPlanner
    \/ guideTimerFired
    \/ onStartGuide
    \/ guideNext
    \/ guideClose
    \/ tilesLoadedEarlier
    \/ aiScoredEarlier
    \/ DropEarlier
    \/ SampledEarlier
    \/ ScoredEarlier
    \/ handleUndoEarlier

SpecEarlier ==
    InitEarlier /\ [][NextEarlier]_vars

(***************************************************************************)
(* C27: the guide.                                                         *)
(***************************************************************************)
\* C27: the guide is a terminating walk over five steps: guideStep is null
\* or one of 0..4, and it changes only by starting at step 0 from null, by
\* advancing one step from a step before the last, or by going to null; so a
\* walk shows each step at most once and ends within five presses of Next.
C27_GuideIsTerminatingWalk ==
    [][/\ guideStep' \in {NoStep} \cup (0..4)
       /\ guideStep' # guideStep
          => \/ guideStep = NoStep /\ guideStep' = 0
             \/ guideStep \in 0..3 /\ guideStep' = guideStep + 1
             \/ guideStep' = NoStep]_vars

=============================================================================
